---- MODULE Spec2Model ----
(***************************************************************************)
(* A model of the Strava API client: authorization.py (ClientData,         *)
(* RateLimitTracking, ApiAccess) and querying.py (caching_get,             *)
(* QueryDatabase).  One Python process runs at a time; its position is pc. *)
(* Files on disk (the cache directory, the token files) survive a crash of *)
(* the process, the fields of the objects do not.                          *)
(*                                                                         *)
(* Time is counted in days since the epoch.  Python's None is modelled by  *)
(* NoToken / NoParams; a file is a record [st, v] so that an absent or a   *)
(* truncated file is told apart from every value a complete file holds.    *)
(***************************************************************************)
EXTENDS Integers, Sequences, FiniteSets, TLC

\* ------------------------------------------------------------------ bounds
MaxLate == 1
MaxTok == 2
MaxCalls == 2
NThreads == 2

\* ------------------------------------------------- constants of the program
CACHE_EXPIRATION_TIME == 7
RESPONSES_PER_PAGE == 200
RATE_LIMIT_RESPONSE_CODE == 429
EPHEMERAL_SECRETS == "ephemeral_secrets.json"
OTHER_SECRETS == "other_secrets.json"
REFRESH_TOKEN == "refresh_token"
CLIENT_ID == "client_id"
CLIENT_SECRET == "client_secret"

\* ------------------------------------------------------------------ values
\* The instants at which the clock is read: an entry made at the first one is
\* exactly CACHE_EXPIRATION_TIME old at the second and older at the later ones.
Instants == {1} \cup {1 + CACHE_EXPIRATION_TIME + d : d \in 0..MaxLate}
Horizon == 1 + CACHE_EXPIRATION_TIME + MaxLate
Tokens == 1..MaxTok
NoToken == 0
NoParams == << >>
Min(a, b) == IF a < b THEN a ELSE b

\* dict | dict of Python: the right operand wins on a shared key.
Merge(f, g) ==
  [k \in (DOMAIN f) \cup (DOMAIN g) |-> IF k \in DOMAIN g THEN g[k] ELSE f[k]]

RECURSIVE Concat(_)
Concat(pages) ==
  IF pages = << >> THEN << >> ELSE Head(pages) \o Concat(Tail(pages))

\* A file: st is "absent", "empty" (opened for writing, nothing written yet)
\* or "full"; v is what a full file holds.
AbsentFile(v0) == [st |-> "absent", v |-> v0]
EmptyFile(v0) == [st |-> "empty", v |-> v0]
FullFile(v) == [st |-> "full", v |-> v]
is_file(f) == f.st # "absent"

NoSecrets == [refresh_token |-> NoToken, access_token |-> NoToken, expiration_time |-> 0]
\* A token file somebody wrote by hand: a refresh token and an expiration time
\* that has not come yet, but no access token.
UnusableSecrets == [refresh_token |-> 1, access_token |-> NoToken, expiration_time |-> Horizon + 1]

\* ------------------------------------------------------------ the schema
ATHLETE == <<"athlete">>
ACTIVITIES == <<"athlete", "activities">>
BOGUS == <<"bogus", "5">>

\* get_all_paths(): the path patterns of the API definition that have a GET,
\* in iteration order, with the pagination flag derived from the parameters.
all_paths ==
  << [path |-> <<"athlete">>, paginated |-> FALSE],
     [path |-> <<"athlete", "activities">>, paginated |-> TRUE],
     [path |-> <<"activities", "{id}">>, paginated |-> FALSE] >>

\* path_matches: every {placeholder} of the pattern becomes [^/]*, the rest
\* has to match literally, segment by segment.
path_matches(path_spec, query_path) ==
  /\ Len(path_spec) = Len(query_path)
  /\ \A i \in 1..Len(path_spec) :
       \/ path_spec[i] = "{id}"
       \/ path_spec[i] = query_path[i]

\* Mutant: a path that matches nothing is served as the first pattern.
get_data_for_path_defaulting(query_path) ==
  LET hits == {i \in 1..Len(all_paths) : path_matches(all_paths[i].path, query_path)}
  IN IF hits = {} THEN 1 ELSE CHOOSE i \in hits : \A j \in hits : i <= j

\* QueryDatabase.__get_data_for_path: the first matching pattern, 0 if none.
get_data_for_path(query_path) ==
  LET hits == {i \in 1..Len(all_paths) : path_matches(all_paths[i].path, query_path)}
  IN IF hits = {} THEN 0 ELSE CHOOSE i \in hits : \A j \in hits : i <= j

\* ---------------------------------------------------------- the cache key
\* A value of a params dict, an int or a str, and f"{value}".
IntValue(n) == [t |-> "int", v |-> n]
StrValue(s) == [t |-> "str", v |-> s]
Format(value) == IF value.t = "int" THEN ToString(value.v) ELSE value.v
\* A dict as Python keeps it: its items, in the order of insertion.
Keys(d) == [i \in 1..Len(d) |-> d[i][1]]
Get(d, key) == d[CHOOSE i \in 1..Len(d) : d[i][1] = key][2]
\* The order of str on the keys that occur.
KeyOrder == <<"after", "keys", "page", "per_page", "resolution">>
Rank(key) == CHOOSE i \in 1..Len(KeyOrder) : KeyOrder[i] = key

\* Mutant: the keys are taken as the dict iterates them.
sorted_as_inserted(keys) == keys

\* sorted(params), on the keys of the dict.
sorted(keys) == SortSeq(keys, LAMBDA a, b : Rank(a) < Rank(b))

\* ",".join(parts)
RECURSIVE join(_, _)
join(sep, parts) ==
  IF parts = << >> THEN ""
  ELSE IF Len(parts) = 1 THEN parts[1]
  ELSE parts[1] \o sep \o join(sep, Tail(parts))

\* Lines 61-62; None and {} both give "".
params_string(params) ==
  LET ks == sorted(Keys(params))
  IN join(",", [i \in 1..Len(ks) |-> ks[i] \o "=" \o Format(Get(params, ks[i]))])

\* Lines 59-65, below cache_folder: netloc is empty for the paths that query
\* passes on, and the path is kept by its segments.
directory_path(url, params) ==
  [netloc |-> "", path |-> url, params_string |-> params_string(params)]

\* The params of a query of the client, which the model keeps as a mapping
\* to integers, as a dict: in one of its insertion orders.
items(params) ==
  LET ks == SelectSeq(KeyOrder, LAMBDA k : k \in DOMAIN params)
  IN [i \in 1..Len(ks) |-> <<ks[i], IntValue(params[ks[i]])>>]

\* The queries a run of the client repeats.
Targets ==
  { [path |-> ATHLETE, params |-> NoParams],
    [path |-> ACTIVITIES, params |-> [k \in {"after"} |-> 5]],
    [path |-> BOGUS, params |-> NoParams] }
Dirs == {directory_path(t.path, items(t.params)) : t \in Targets}

\* Calls of caching_get whose directories are compared: the items a params
\* dict may hold, at most one for a key, in every order of insertion.
KeyItems ==
  { <<"after", IntValue(5)>>, <<"keys", StrValue("time")>>,
    <<"keys", StrValue("time,resolution=low")>>, <<"resolution", StrValue("low")>> }
MaxItems == 2
KeyDicts ==
  { d \in UNION {[1..n -> KeyItems] : n \in 0..MaxItems} :
      \A i \in 1..Len(d), j \in 1..Len(d) : i # j => d[i][1] # d[j][1] }
KeyQueries == [url : {ATHLETE, ACTIVITIES}, params : KeyDicts]
NoQueries == << >>

\* ------------------------------------------------------------- the server
\* The status codes the API answers with: success, a redirection that the
\* HTTP library hands back as it came, the two that make_request handles,
\* and a server error.
Statuses == {200, 304, 401, 429, 500}
\* How many activities the athlete has when a page is asked for.
DatasetSizes == {0, 50, 200, 250}
Body(n) == [i \in 1..n |-> i]
\* Page pg of a list of n items, per_page items to the page.
PageOf(n, pg, per_page) ==
  LET from == Min((pg - 1) * per_page, n)
      to == Min(pg * per_page, n)
  IN [i \in 1..(to - from) |-> from + i]
\* What the API may answer to a successful GET with these query parameters:
\* a document for a plain path, a page of the list for a paginated path.
ServerBodies(paginated, params) ==
  IF ~paginated THEN {<<7>>, <<8>>}
  ELSE {PageOf(n, params["page"], params["per_page"]) : n \in DatasetSizes}

\* ------------------------------------------------------ RateLimitTracking
MAX_RATE_LIMIT_USAGE_TENTHS == 8
SHORT_RATE_LIMIT_PERIOD_MINUTES == 15
MINUTES_PER_HOUR == 60
MINUTES_PER_DAY == 1440
None == -1

\* A datetime: aware (with a timezone, t minutes after the epoch in UTC) or
\* naive.  datetime.fromtimestamp(0) is naive.
Aware(t) == [aware |-> TRUE, t |-> t]
Epoch == [aware |-> FALSE, t |-> 0]

\* Lines 99-107.
RateLimitTracking0 ==
  [last_rate_limit_update |-> None,
   short_count |-> None, daily_count |-> None,
   short_limit |-> None, daily_limit |-> None]

\* Lines 129-137: midnight (UTC) after the last update.
daily_refresh_time(self) ==
  IF self.last_rate_limit_update = None THEN Epoch
  ELSE LET last_time_utc == self.last_rate_limit_update
           last_time_rounded == last_time_utc - (last_time_utc % MINUTES_PER_DAY)
       IN Aware(last_time_rounded + MINUTES_PER_DAY)

\* Lines 139-153: the end of the quarter of an hour of the last update.
short_refresh_time(self) ==
  IF self.last_rate_limit_update = None THEN Epoch
  ELSE LET last_time_utc == self.last_rate_limit_update
           minute == last_time_utc % MINUTES_PER_HOUR
           last_minutes_rounded ==
             (minute \div SHORT_RATE_LIMIT_PERIOD_MINUTES) * SHORT_RATE_LIMIT_PERIOD_MINUTES
           last_time_rounded == (last_time_utc - minute) + last_minutes_rounded
       IN Aware(last_time_rounded + SHORT_RATE_LIMIT_PERIOD_MINUTES)

\* Mutant: count > limit instead of count >= limit.
is_limited_window_above(self, count, nominal_limit, refresh_time, leave_buffer, t) ==
  IF self.last_rate_limit_update = None THEN FALSE
  ELSE /\ 10 * count > nominal_limit * (IF leave_buffer THEN MAX_RATE_LIMIT_USAGE_TENTHS ELSE 10)
       /\ t < refresh_time.t

\* Mutant: now <= refresh_time instead of now < refresh_time.
is_limited_window_inclusive(self, count, nominal_limit, refresh_time, leave_buffer, t) ==
  IF self.last_rate_limit_update = None THEN FALSE
  ELSE /\ 10 * count >= nominal_limit * (IF leave_buffer THEN MAX_RATE_LIMIT_USAGE_TENTHS ELSE 10)
       /\ t <= refresh_time.t

\* Lines 155-161, __is_limited, read at time t.  count >= nominal_limit * 0.8
\* is compared in tenths; in floating point the product is exact enough for
\* the comparison to come out the same for every limit up to 200000.
is_limited_window(self, count, nominal_limit, refresh_time, leave_buffer, t) ==
  IF self.last_rate_limit_update = None THEN FALSE
  ELSE /\ 10 * count >= nominal_limit * (IF leave_buffer THEN MAX_RATE_LIMIT_USAGE_TENTHS ELSE 10)
       /\ t < refresh_time.t

\* Lines 163-165.
is_short_limited(self, leave_buffer, t) ==
  is_limited_window(self, self.short_count, self.short_limit,
                    short_refresh_time(self), leave_buffer, t)

\* Lines 167-169.
is_daily_limited(self, leave_buffer, t) ==
  is_limited_window(self, self.daily_count, self.daily_limit,
                    daily_refresh_time(self), leave_buffer, t)

\* Lines 171-178.
is_limited(self, leave_buffer, t) ==
  is_short_limited(self, leave_buffer, t) \/ is_daily_limited(self, leave_buffer, t)

\* Mutant: the earlier of the two ends is waited for.
next_unlimited_time_earliest(self, leave_buffer, t) ==
  IF is_limited(self, leave_buffer, t) THEN short_refresh_time(self)
  ELSE Epoch

\* Mutant: the short window is looked at first.
next_unlimited_time_short_first(self, leave_buffer, t) ==
  IF is_short_limited(self, leave_buffer, t) THEN short_refresh_time(self)
  ELSE IF is_daily_limited(self, leave_buffer, t) THEN daily_refresh_time(self)
  ELSE Epoch

\* Lines 180-186.
next_unlimited_time(self, leave_buffer, t) ==
  IF is_daily_limited(self, leave_buffer, t) THEN daily_refresh_time(self)
  ELSE IF is_short_limited(self, leave_buffer, t) THEN short_refresh_time(self)
  ELSE Epoch

\* None * 0.8 and None >= limit raise TypeError: a tracker that has the time
\* of an update and lacks a count or a limit.
LimitedRaises(self) ==
  /\ self.last_rate_limit_update # None
  /\ \/ self.short_count = None \/ self.short_limit = None
     \/ self.daily_count = None \/ self.daily_limit = None

\* Mutant: the time of the update is taken before the headers are looked at.
update_stamping_first(self, headers, t) ==
  LET stamped == [self EXCEPT !.last_rate_limit_update = t] IN
  IF headers.usage.st = "absent" \/ headers.limit.st = "absent"
    THEN [self |-> stamped, raised |-> FALSE]
  ELSE IF headers.usage.st = "malformed" THEN [self |-> stamped, raised |-> TRUE]
  ELSE LET counted == [stamped EXCEPT !.short_count = headers.usage.v[1],
                                      !.daily_count = headers.usage.v[2]] IN
       IF headers.limit.st = "malformed" THEN [self |-> counted, raised |-> TRUE]
       ELSE [self |-> [counted EXCEPT !.short_limit = headers.limit.v[1],
                                      !.daily_limit = headers.limit.v[2]],
             raised |-> FALSE]

\* Lines 109-123, called at time t: the tracker as the call leaves it, and
\* whether the call raised (int() or the unpacking of the pair, ValueError).
update(self, headers, t) ==
  IF headers.usage.st = "absent" THEN [self |-> self, raised |-> FALSE]
  ELSE IF headers.limit.st = "absent" THEN [self |-> self, raised |-> FALSE]
  ELSE LET stamped == [self EXCEPT !.last_rate_limit_update = t] IN
       IF headers.usage.st = "malformed" THEN [self |-> stamped, raised |-> TRUE]
       ELSE LET counted == [stamped EXCEPT !.short_count = headers.usage.v[1],
                                           !.daily_count = headers.usage.v[2]] IN
            IF headers.limit.st = "malformed" THEN [self |-> counted, raised |-> TRUE]
            ELSE [self |-> [counted EXCEPT !.short_limit = headers.limit.v[1],
                                           !.daily_limit = headers.limit.v[2]],
                  raised |-> FALSE]

\* The headers of a response, as far as update reads them: each of the two
\* is absent, a pair of integers, or something int() or the unpacking of
\* the pair rejects.
AbsentHeader == [st |-> "absent", v |-> << >>]
MalformedHeader == [st |-> "malformed", v |-> << >>]
IntegersHeader(p) == [st |-> "integers", v |-> p]
UsageValues == {<<s, d>> : s \in {11, 12, 15}, d \in {79, 80, 100}}
LimitValues == {<<15, 100>>, <<10, 50>>}
Headers ==
  [usage : {AbsentHeader, MalformedHeader} \cup {IntegersHeader(p) : p \in UsageValues},
   limit : {AbsentHeader, MalformedHeader} \cup {IntegersHeader(p) : p \in LimitValues}]
NoHeaders == [usage |-> AbsentHeader, limit |-> AbsentHeader]
\* A response: authorization is the Authorization header of the request it
\* answers (response.request), as a token.
NoResponse ==
  [status_code |-> 0, body |-> << >>, headers |-> NoHeaders, authorization |-> NoToken]

\* The moments at which the clock is read: inside the last but one quarter of
\* an hour of a day, around its end, and around the end of the day.
Moments ==
  LET day == MINUTES_PER_DAY
      quarter == SHORT_RATE_LIMIT_PERIOD_MINUTES
  IN {day - 2 * quarter + 5, day - quarter - 1, day - quarter, day - quarter + 1,
      day - 1, day, day + 1}
FirstMoment == CHOOSE t \in Moments : \A u \in Moments : t <= u

\* Threads that share one ApiAccess: where each one is in make_request, and
\* the refresh token it has posted.
Threads == 1..NThreads
ThreadIdle == [pc |-> "idle", sent |-> 0]

NoCall ==
  [op |-> "none", leave_buffer |-> FALSE, st |-> "ok", limited |-> FALSE,
   time |-> Epoch, usage |-> "absent", limit |-> "absent", at |-> 0]

VARIABLES
  pc, now,
  target, secrets_file, server, metering, buffers,
  cache, tokfile, torn,
  client_data, refresh_token, access_token, expiration_time,
  force_refresh, page, result, current_time,
  caller, kwargs, attempt_auth, rate_limit_buffer, rate_limit_autobackoff,
  response, grant_type,
  op, outcome, http_calls, oauth_calls, cache0, pages_req, pages_got,
  before, last,
  rate_limiting, utcnow, rl_call, target_time,
  threads,
  queries, locations

\* metering: what the API sends in the rate limit headers; buffers: the
\* values the application passes for rate_limit_buffer.
config == <<target, secrets_file, server, metering, buffers>>
\* The RateLimitTracking object of the ApiAccess, the clock as its methods
\* read it (datetime.now(tz=timezone.utc), in minutes), and the last call of
\* one of its methods, when it was made and what it gave (history);
\* target_time is the local variable of sleep_until_unlimited.
ratevars == <<rate_limiting, utcnow, rl_call, target_time>>
\* Two calls of caching_get, as (url, params), and the directories it
\* computes for them (none before it has).
keyvars == <<queries, locations>>
\* What an application with one thread that goes through make_request and
\* query leaves alone: the tracker's snapshot, the threads that share the
\* ApiAccess, and the two calls of caching_get that are looked at on their
\* own.
aside == <<ratevars, threads, keyvars>>
\* torn: the cache entry of the target is between the first and the last write
\* of a persist, or a process died there (history; no file says so).
files == <<cache, tokfile, torn>>
creds == <<refresh_token, access_token, expiration_time>>
cgvars == <<force_refresh, page, result, current_time>>
mrvars == <<caller, kwargs, attempt_auth, rate_limit_buffer, rate_limit_autobackoff>>
\* History of the operation in progress (or just finished): its arguments,
\* its outcome, the network calls it made, the cache entry it started from.
\* last is how the query without force_refresh that has just finished went,
\* as long as nothing has happened since; before is last as it was when a
\* query that returned or raised at once was called.
ophist == <<op, outcome, http_calls, oauth_calls, cache0, pages_req, pages_got, before>>
ghost == <<ophist, last>>
vars == <<pc, now, config, aside, files, client_data, creds, cgvars, mrvars,
          response, grant_type, ghost>>

ClientData0 == [k \in {CLIENT_ID, CLIENT_SECRET} |-> IF k = CLIENT_ID THEN "1" ELSE "s"]
NoEntry == [creation_time |-> AbsentFile(0), content |-> AbsentFile(<< >>)]
NoOutcome == [st |-> "none", val |-> << >>]
Running == [st |-> "running", val |-> << >>]
Returned(v) == [st |-> "ok", val |-> v]
Raised == [st |-> "err", val |-> << >>]

NoOp == [kind |-> "none", force |-> FALSE, attempt_auth |-> FALSE, autobackoff |-> FALSE]
NoLast == [ok |-> FALSE, calls |-> -1]

\* The token endpoint (and the user typing a refresh token): a "steady" one
\* hands out the same pair of tokens with an expiry beyond the horizon, "any"
\* one rotates the tokens and lets them expire as it likes.
ServerTokens == IF server = "steady" THEN {1} ELSE Tokens
ExpiresAt == IF server = "steady" THEN {Horizon + 1} ELSE {now, now + 1}

\* The rate limit headers of the API's responses: none when it does not
\* meter the application; otherwise the usage (around four fifths of the
\* limits, or something that is no pair of integers) and the limits.
MeteredUsage == {<<11, 79>>, <<12, 79>>, <<11, 80>>, <<15, 100>>}
ServerHeaders ==
  IF metering = "unmetered" THEN {NoHeaders}
  ELSE [usage : {MalformedHeader} \cup {IntegersHeader(p) : p \in MeteredUsage},
        limit : {IntegersHeader(<<15, 100>>)}]

Init ==
  /\ pc = "down"
  /\ now = 1
  /\ target \in Targets
  /\ secrets_file \in {EPHEMERAL_SECRETS, OTHER_SECRETS}
  /\ server \in {"steady", "any"}
  /\ metering \in {"unmetered", "metered"}
  /\ buffers \in {{TRUE}, BOOLEAN}
  /\ cache = [d \in Dirs |-> NoEntry]
  /\ torn = FALSE
  /\ \E f0 \in {AbsentFile(NoSecrets)} \cup
                {FullFile([NoSecrets EXCEPT !.refresh_token = t]) : t \in ServerTokens} \cup
                {FullFile(UnusableSecrets)} :
       tokfile = [f \in {EPHEMERAL_SECRETS, OTHER_SECRETS} |->
                    IF f = secrets_file THEN f0 ELSE AbsentFile(NoSecrets)]
  /\ client_data = ClientData0
  /\ refresh_token = NoToken /\ access_token = NoToken /\ expiration_time = 0
  /\ force_refresh = FALSE /\ page = 0 /\ result = << >> /\ current_time = 0
  /\ caller = "none" /\ kwargs = NoParams
  /\ attempt_auth = FALSE /\ rate_limit_buffer = FALSE /\ rate_limit_autobackoff = FALSE
  /\ response = NoResponse
  /\ grant_type = "none"
  /\ op = NoOp /\ outcome = NoOutcome /\ http_calls = 0 /\ oauth_calls = 0
  /\ cache0 = NoEntry /\ pages_req = << >> /\ pages_got = << >>
  /\ before = NoLast /\ last = NoLast
  /\ rate_limiting = RateLimitTracking0
  /\ utcnow = FirstMoment
  /\ rl_call = NoCall
  /\ target_time = Epoch
  /\ threads = [t \in Threads |-> ThreadIdle]
  /\ queries \in {NoQueries} \cup (KeyQueries \X KeyQueries)
  /\ locations = << >>


\* ------------------------------------------------------- common fragments
Paginated == all_paths[get_data_for_path(target.path)].paginated
Dir == directory_path(target.path, items(target.params))

ResetFrames ==
  /\ force_refresh' = FALSE /\ page' = 0 /\ result' = << >> /\ current_time' = 0
  /\ caller' = "none" /\ kwargs' = NoParams
  /\ attempt_auth' = FALSE /\ rate_limit_buffer' = FALSE
  /\ rate_limit_autobackoff' = FALSE
  /\ response' = NoResponse /\ grant_type' = "none"

ResetObjects ==
  /\ client_data' = ClientData0
  /\ refresh_token' = NoToken /\ access_token' = NoToken /\ expiration_time' = 0

ResetHistory ==
  /\ op' = NoOp /\ outcome' = NoOutcome /\ http_calls' = 0 /\ oauth_calls' = 0
  /\ cache0' = NoEntry /\ pages_req' = << >> /\ pages_got' = << >>
  /\ before' = NoLast

\* An exception nobody catches: the constructor's kills the program, one
\* raised inside make_request or query reaches the caller of that operation.
\* None of the handlers below has an except or a finally clause, so memory
\* and files stay as the raising statement left them.
Propagate ==
  /\ ResetFrames
  /\ IF caller = "init"
       THEN pc' = "down" /\ UNCHANGED outcome
       ELSE pc' = "done" /\ outcome' = Raised
  /\ UNCHANGED <<op, http_calls, oauth_calls, cache0, pages_req, pages_got, before, last>>

Raise ==
  /\ Propagate
  /\ IF caller = "init" THEN ResetObjects ELSE UNCHANGED <<client_data, creds>>
  /\ UNCHANGED <<now, config, aside, files>>

Return(v) ==
  /\ ResetFrames
  /\ pc' = "done"
  /\ outcome' = Returned(v)
  /\ UNCHANGED <<op, http_calls, oauth_calls, cache0, pages_req, pages_got, before, last>>

\* ------------------------------------------------------ ApiAccess.__init__
\* Lines 235-253: load the token file, or ask the user for a refresh token
\* and start a new file.
Start ==
  /\ pc = "down"
  /\ LET f == tokfile[secrets_file] IN
       \/ /\ f.st = "full"
          /\ refresh_token' = f.v.refresh_token
          /\ expiration_time' = f.v.expiration_time
          /\ access_token' = f.v.access_token
          /\ pc' = "rc"
          /\ UNCHANGED tokfile
       \/ /\ f.st = "absent"
          /\ \E t \in ServerTokens : refresh_token' = t
          /\ tokfile' = [tokfile EXCEPT ![EPHEMERAL_SECRETS] = EmptyFile(NoSecrets)]
          /\ expiration_time' = 0
          /\ access_token' = NoToken
          /\ pc' = "init_dump"
  /\ caller' = "init"
  /\ UNCHANGED <<now, config, aside, cache, torn, client_data, cgvars, kwargs, attempt_auth,
                 rate_limit_buffer, rate_limit_autobackoff, response, grant_type, ghost>>

\* Line 251: json.dump({REFRESH_TOKEN: ...}) into the file opened at line 250.
InitDump ==
  /\ pc = "init_dump"
  /\ tokfile' = [tokfile EXCEPT ![EPHEMERAL_SECRETS] =
                   FullFile([NoSecrets EXCEPT !.refresh_token = refresh_token])]
  /\ pc' = "rc"
  /\ UNCHANGED <<now, config, aside, cache, torn, client_data, creds, cgvars, mrvars,
                 response, grant_type, ghost>>

\* ------------------------------------------ ApiAccess.__refresh_credentials
\* ClientData.asdict() hands out the object's own __dict__, so the keys the
\* request adds stay in client_data.
refresh_request ==
  Merge(client_data,
        [k \in {"grant_type", REFRESH_TOKEN} |->
           IF k = "grant_type" THEN "refresh_token" ELSE refresh_token])

\* Mutant: a token that expires at this very moment counts as expired.
Expired_inclusive == expiration_time <= now

\* Lines 260-262.
Expired == expiration_time < now

refresh_credentials ==
  /\ pc = "rc"
  /\ IF Expired
       THEN /\ client_data' = refresh_request
            /\ grant_type' = "refresh_token"
            /\ pc' = "exchange"
            /\ UNCHANGED <<now, config, aside, files, creds, cgvars, mrvars, response, ghost>>
       ELSE IF access_token = NoToken
         THEN Raise
         ELSE /\ pc' = IF caller = "init" THEN "idle" ELSE "mr_http"
              /\ caller' = IF caller = "init" THEN "none" ELSE caller
              /\ UNCHANGED <<now, config, aside, files, client_data, creds, cgvars,
                             kwargs, attempt_auth, rate_limit_buffer, rate_limit_autobackoff, response,
                             grant_type, ghost>>

\* --------------------------------------- ApiAccess.__handle_token_response
\* raise_for_status() or response.json() or response_json["expires_at"] fails.
TokenResponseRejected ==
  /\ pc = "exchange"
  /\ Raise

\* "expires_at" is there, "access_token" or "refresh_token" is not: line 286
\* has run when line 287 or 288 raises KeyError.
TokenResponseIncomplete ==
  /\ pc = "exchange"
  /\ \E e \in ExpiresAt :
       /\ Propagate
       /\ IF caller = "init"
            THEN ResetObjects
            ELSE expiration_time' = e /\ UNCHANGED <<client_data, refresh_token, access_token>>
  /\ UNCHANGED <<now, config, aside, files>>

\* Lines 284-300: the fields are set and the token file is opened with 'w'.
handle_token_response ==
  /\ pc = "exchange"
  /\ \E e \in ExpiresAt, a \in ServerTokens, r \in ServerTokens :
       /\ expiration_time' = e
       /\ access_token' = a
       /\ refresh_token' = r
  /\ tokfile' = [tokfile EXCEPT ![EPHEMERAL_SECRETS] = EmptyFile(NoSecrets)]
  /\ pc' = "tok_dump"
  /\ UNCHANGED <<now, config, aside, cache, torn, client_data, cgvars, mrvars, response,
                 grant_type, ghost>>

\* Mutant: the retry after __attempt_oauth keeps attempt_auth as it was.
TokDump_keeping_attempt_auth ==
  /\ pc = "tok_dump"
  /\ tokfile' = [tokfile EXCEPT ![EPHEMERAL_SECRETS] =
                   FullFile([refresh_token |-> refresh_token,
                             access_token |-> access_token,
                             expiration_time |-> expiration_time])]
  /\ IF grant_type = "authorization_code"
       THEN /\ pc' = "mr_enter"
            /\ attempt_auth' = attempt_auth
            /\ UNCHANGED caller
       ELSE /\ pc' = IF caller = "init" THEN "idle" ELSE "mr_http"
            /\ caller' = IF caller = "init" THEN "none" ELSE caller
            /\ UNCHANGED attempt_auth
  /\ grant_type' = "none"
  /\ UNCHANGED <<now, config, aside, cache, torn, client_data, creds, cgvars, kwargs,
                 rate_limit_buffer, rate_limit_autobackoff, response, ghost>>


\* Lines 301-308, then back in the caller: __refresh_credentials returns to
\* __init__ or to make_request line 335; __attempt_oauth returns to line 344,
\* the retry with attempt_auth=False.
TokDump ==
  /\ pc = "tok_dump"
  /\ tokfile' = [tokfile EXCEPT ![EPHEMERAL_SECRETS] =
                   FullFile([refresh_token |-> refresh_token,
                             access_token |-> access_token,
                             expiration_time |-> expiration_time])]
  /\ IF grant_type = "authorization_code"
       THEN /\ pc' = "mr_enter"
            /\ attempt_auth' = FALSE
            /\ UNCHANGED caller
       ELSE /\ pc' = IF caller = "init" THEN "idle" ELSE "mr_http"
            /\ caller' = IF caller = "init" THEN "none" ELSE caller
            /\ UNCHANGED attempt_auth
  /\ grant_type' = "none"
  /\ UNCHANGED <<now, config, aside, cache, torn, client_data, creds, cgvars, kwargs,
                 rate_limit_buffer, rate_limit_autobackoff, response, ghost>>


\* ---------------------------------------------------- ApiAccess.make_request
\* The application calls make_request itself (get_athlete_demo.py line 10).
make_request_call ==
  /\ pc = "idle"
  /\ \E aa \in BOOLEAN, rb \in buffers, ab \in BOOLEAN :
       /\ attempt_auth' = aa
       /\ rate_limit_buffer' = rb
       /\ rate_limit_autobackoff' = ab
       /\ op' = [kind |-> "request", force |-> FALSE, attempt_auth |-> aa, autobackoff |-> ab]
  /\ caller' = "direct"
  /\ kwargs' = NoParams
  /\ pc' = "mr_enter"
  /\ outcome' = Running /\ http_calls' = 0 /\ oauth_calls' = 0
  /\ cache0' = NoEntry /\ pages_req' = << >> /\ pages_got' = << >>
  /\ before' = NoLast /\ last' = NoLast
  /\ UNCHANGED <<now, config, aside, files, client_data, creds, cgvars, response, grant_type>>

\* Mutant: the tracker is waited for whatever rate_limit_autobackoff says.
make_request_enter_waiting ==
  /\ pc = "mr_enter"
  /\ target_time' = Epoch
  /\ UNCHANGED <<now, config, rate_limiting, utcnow, rl_call, threads, keyvars, files>>
  /\ IF LimitedRaises(rate_limiting)
       THEN Propagate /\ UNCHANGED <<client_data, creds>>
       ELSE /\ pc' = IF is_limited(rate_limiting, rate_limit_buffer, utcnow)
                        THEN "sl_target" ELSE "rc"
            /\ UNCHANGED <<client_data, creds, cgvars, mrvars, response, grant_type, ghost>>

\* Lines 330-332 and 189-190: with rate_limit_autobackoff,
\* sleep_until_unlimited asks is_limited, which raises TypeError on a tracker
\* without counts, and returns at once when the tracker is not limited.
\* target_time of an earlier call of sleep_until_unlimited is gone by now.
make_request_enter ==
  /\ pc = "mr_enter"
  /\ target_time' = Epoch
  /\ UNCHANGED <<now, config, rate_limiting, utcnow, rl_call, threads, keyvars, files>>
  /\ IF rate_limit_autobackoff /\ LimitedRaises(rate_limiting)
       THEN Propagate /\ UNCHANGED <<client_data, creds>>
       ELSE /\ pc' = IF /\ rate_limit_autobackoff
                         /\ is_limited(rate_limiting, rate_limit_buffer, utcnow)
                        THEN "sl_target" ELSE "rc"
            /\ UNCHANGED <<client_data, creds, cgvars, mrvars, response, grant_type, ghost>>

\* Line 191: target_time = self.next_unlimited_time(leave_buffer), which
\* reads the clock again.
sleep_target ==
  /\ pc = "sl_target"
  /\ target_time' = next_unlimited_time(rate_limiting, rate_limit_buffer, utcnow)
  /\ pc' = "sl_sleep"
  /\ UNCHANGED <<now, config, rate_limiting, utcnow, rl_call, threads, keyvars, files,
                 client_data, creds, cgvars, mrvars, response, grant_type, ghost>>

\* Lines 196-197: target_time - datetime.now(tz=timezone.utc) raises TypeError
\* when target_time is naive; time.sleep raises ValueError for a negative
\* length; otherwise the thread sleeps for at least that long (a sleep
\* that would end after the last of the moments is not followed).  The time
\* slept until stays in target_time up to the next entry of make_request.
sleep_until ==
  /\ pc = "sl_sleep"
  /\ IF ~target_time.aware \/ target_time.t < utcnow
       THEN /\ Propagate
            /\ target_time' = Epoch
            /\ UNCHANGED utcnow
       ELSE /\ UNCHANGED target_time
            /\ \E t \in {m \in Moments : m >= target_time.t} : utcnow' = t
            /\ pc' = "rc"
            /\ UNCHANGED <<cgvars, mrvars, response, grant_type, ghost>>
  /\ UNCHANGED <<now, config, rate_limiting, rl_call, threads, keyvars, files, client_data, creds>>

\* Lines 335-338: method(...) returns a response.
http_call ==
  /\ pc = "mr_http"
  /\ \E st \in Statuses, h \in ServerHeaders :
       \E b \in (IF st = 200
                   THEN ServerBodies(caller = "cg" /\ Paginated, kwargs)
                   ELSE {<< >>}) :
         response' = [status_code |-> st, body |-> b, headers |-> h,
                      authorization |-> access_token]
  /\ http_calls' = Min(http_calls + 1, MaxCalls)
  /\ pc' = "mr_update"
  /\ UNCHANGED <<now, config, aside, files, client_data, creds, cgvars, mrvars,
                 grant_type, op, outcome, oauth_calls, cache0, pages_req, pages_got,
                 before, last>>

\* Lines 335-338: method(...) raises (no connection, timeout).
http_call_fails ==
  /\ pc = "mr_http"
  /\ http_calls' = Min(http_calls + 1, MaxCalls)
  /\ ResetFrames
  /\ pc' = "done" /\ outcome' = Raised
  /\ UNCHANGED <<now, config, aside, files, client_data, creds, op, oauth_calls, cache0,
                 pages_req, pages_got, before, last>>

\* Line 339: rate_limiting.update(response.headers), which raises
\* ValueError on a header value that is no pair of integers.
rate_limiting_update ==
  /\ pc = "mr_update"
  /\ LET r == update(rate_limiting, response.headers, utcnow) IN
       /\ rate_limiting' = r.self
       /\ IF r.raised
            THEN Propagate
            ELSE /\ pc' = "mr_dispatch"
                 /\ UNCHANGED <<cgvars, mrvars, response, grant_type, ghost>>
  /\ UNCHANGED <<now, config, utcnow, rl_call, target_time, threads, keyvars, files,
                 client_data, creds>>

\* Mutant: the retry after a 429 leaves attempt_auth at its default, True.
make_request_dispatch_default_auth ==
  /\ pc = "mr_dispatch"
  /\ IF response.status_code = 401 /\ attempt_auth
       THEN /\ pc' = "oauth"
            /\ oauth_calls' = Min(oauth_calls + 1, MaxCalls)
            /\ UNCHANGED <<now, config, aside, files, client_data, creds, cgvars, mrvars,
                           response, grant_type, op, outcome, http_calls, cache0,
                           pages_req, pages_got, before, last>>
       ELSE IF response.status_code = RATE_LIMIT_RESPONSE_CODE /\ rate_limit_autobackoff
         THEN /\ pc' = "mr_enter"
              /\ attempt_auth' = TRUE
              /\ UNCHANGED <<now, config, aside, files, client_data, creds, cgvars, caller,
                             kwargs, rate_limit_buffer, rate_limit_autobackoff, response, grant_type,
                             ghost>>
         ELSE IF response.status_code >= 400
           THEN Raise
           \* line 366: is_limited, for the warning
           ELSE IF LimitedRaises(rate_limiting)
             THEN Raise
           ELSE IF caller = "cg"
             THEN /\ pc' = "cg_resp"
                  /\ UNCHANGED <<now, config, aside, files, client_data, creds, cgvars,
                                 mrvars, response, grant_type, ghost>>
             ELSE /\ Return(response.body)
                  /\ UNCHANGED <<now, config, aside, files, client_data, creds>>

\* Mutant: after a 429 the request is sent again at once.
make_request_dispatch_resending ==
  /\ pc = "mr_dispatch"
  /\ IF response.status_code = 401 /\ attempt_auth
       THEN /\ pc' = "oauth"
            /\ oauth_calls' = Min(oauth_calls + 1, MaxCalls)
            /\ UNCHANGED <<now, config, aside, files, client_data, creds, cgvars, mrvars,
                           response, grant_type, op, outcome, http_calls, cache0,
                           pages_req, pages_got, before, last>>
       ELSE IF response.status_code = RATE_LIMIT_RESPONSE_CODE /\ rate_limit_autobackoff
         THEN /\ pc' = "mr_http"
              /\ UNCHANGED <<now, config, aside, files, client_data, creds, cgvars, mrvars,
                             response, grant_type, ghost>>
         ELSE IF response.status_code >= 400
           THEN Raise
           \* line 366: is_limited, for the warning
           ELSE IF LimitedRaises(rate_limiting)
             THEN Raise
           ELSE IF caller = "cg"
             THEN /\ pc' = "cg_resp"
                  /\ UNCHANGED <<now, config, aside, files, client_data, creds, cgvars,
                                 mrvars, response, grant_type, ghost>>
             ELSE /\ Return(response.body)
                  /\ UNCHANGED <<now, config, aside, files, client_data, creds>>

\* Lines 340-373: the dispatch on the status code.
make_request_dispatch ==
  /\ pc = "mr_dispatch"
  /\ IF response.status_code = 401 /\ attempt_auth
       THEN /\ pc' = "oauth"
            /\ oauth_calls' = Min(oauth_calls + 1, MaxCalls)
            /\ UNCHANGED <<now, config, aside, files, client_data, creds, cgvars, mrvars,
                           response, grant_type, op, outcome, http_calls, cache0,
                           pages_req, pages_got, before, last>>
       ELSE IF response.status_code = RATE_LIMIT_RESPONSE_CODE /\ rate_limit_autobackoff
         THEN /\ pc' = "mr_enter"
              /\ UNCHANGED <<now, config, aside, files, client_data, creds, cgvars, mrvars,
                             response, grant_type, ghost>>
         ELSE IF response.status_code >= 400
           THEN Raise
           \* line 366: is_limited, for the warning
           ELSE IF LimitedRaises(rate_limiting)
             THEN Raise
           ELSE IF caller = "cg"
             THEN /\ pc' = "cg_resp"
                  /\ UNCHANGED <<now, config, aside, files, client_data, creds, cgvars,
                                 mrvars, response, grant_type, ghost>>
             ELSE /\ Return(response.body)
                  /\ UNCHANGED <<now, config, aside, files, client_data, creds>>

\* ---------------------------------------------------- ApiAccess.__attempt_oauth
token_exchange ==
  Merge(client_data,
        [k \in {"grant_type", "code"} |->
           IF k = "grant_type" THEN "authorization_code" ELSE "c"])

\* Lines 390-454: the browser round trip ends with an error (line 447) or
\* with a code that is posted to the token endpoint.
attempt_oauth ==
  /\ pc = "oauth"
  /\ \/ Raise
     \/ /\ client_data' = token_exchange
        /\ grant_type' = "authorization_code"
        /\ pc' = "exchange"
        /\ UNCHANGED <<now, config, aside, files, creds, cgvars, mrvars, response, ghost>>


\* --------------------------------------- QueryDatabase.query, caching_get
\* Mutant: force_refresh is not looked at.
cache_hit_unforced(entry, force) ==
  is_file(entry.creation_time) /\ is_file(entry.content)

\* Mutant: the flag is tested the wrong way round.
cache_hit_inverted(entry, force) ==
  is_file(entry.creation_time) /\ is_file(entry.content) /\ force

\* Lines 69-70.
cache_hit(entry, force) ==
  is_file(entry.creation_time) /\ is_file(entry.content) /\ ~force

\* Mutant: an entry exactly as old as the window is refreshed too.
needs_refresh_inclusive(entry, t) ==
  /\ is_file(entry.creation_time)
  /\ entry.creation_time.v + CACHE_EXPIRATION_TIME <= t

\* Mutant: the window is subtracted instead of added.
needs_refresh_subtracting(entry, t) ==
  /\ is_file(entry.creation_time)
  /\ entry.creation_time.v - CACHE_EXPIRATION_TIME < t

\* Lines 77-78 (creation_time is None when the file is absent).
needs_refresh(entry, t) ==
  /\ is_file(entry.creation_time)
  /\ entry.creation_time.v + CACHE_EXPIRATION_TIME < t

StartQuery(force) ==
  /\ op' = [kind |-> "query", force |-> force, attempt_auth |-> TRUE, autobackoff |-> TRUE]
  /\ http_calls' = 0 /\ oauth_calls' = 0
  /\ cache0' = cache[Dir] /\ pages_req' = << >> /\ pages_got' = << >>
  /\ last' = NoLast

\* query() lines 226-231 and caching_get lines 59-88: from the call to the
\* return of the cached payload, to an exception, or to the first fetch.
query ==
  /\ pc = "idle"
  /\ \E force \in BOOLEAN :
       LET entry == cache[Dir] IN
         /\ StartQuery(force)
         /\ IF get_data_for_path(target.path) = 0
              \* __get_data_for_path raises ValueError
              THEN /\ pc' = "done" /\ outcome' = Raised
                   /\ UNCHANGED <<force_refresh, page, result, current_time>>
              ELSE IF entry.creation_time.st = "empty"
                \* float('') raises ValueError
                THEN /\ pc' = "done" /\ outcome' = Raised
                     /\ UNCHANGED <<force_refresh, page, result, current_time>>
                ELSE IF cache_hit(entry, force) /\ ~needs_refresh(entry, now)
                  THEN /\ pc' = "done"
                       \* json.load raises JSONDecodeError on a truncated file
                       /\ outcome' = IF entry.content.st = "full"
                                       THEN Returned(entry.content.v)
                                       ELSE Raised
                       /\ UNCHANGED <<force_refresh, page, result, current_time>>
                  ELSE /\ pc' = "cg_call"
                       /\ outcome' = Running
                       /\ force_refresh' = force
                       /\ page' = 1
                       /\ result' = << >>
                       /\ current_time' = now
         /\ before' = IF pc' = "done" THEN last ELSE NoLast
  /\ UNCHANGED <<now, config, aside, files, client_data, creds, mrvars, response, grant_type>>

page_params ==
  Merge(target.params,
        [k \in {"page", "per_page"} |->
           IF k = "page" THEN page ELSE RESPONSES_PER_PAGE])

\* Lines 96-101 and 116: the call of getter, which is make_request with its
\* default arguments.
getter_call ==
  /\ pc = "cg_call"
  /\ IF Paginated
       THEN /\ kwargs' = page_params
            /\ page' = page + 1
       ELSE /\ kwargs' = target.params
            /\ UNCHANGED page
  /\ pages_req' = Append(pages_req, kwargs')
  /\ caller' = "cg"
  /\ oauth_calls' = 0
  /\ attempt_auth' = TRUE
  /\ rate_limit_buffer' = TRUE
  /\ rate_limit_autobackoff' = TRUE
  /\ pc' = "mr_enter"
  /\ UNCHANGED <<now, config, aside, files, client_data, creds, force_refresh, result,
                 current_time, response, grant_type, op, outcome, http_calls,
                 cache0, pages_got, before, last>>

\* Mutant: every page is saved as soon as it has arrived.
getter_response_saving ==
  /\ pc = "cg_resp"
  /\ IF response.status_code # 200
       \* response.json() raises: there is no document in the body
       THEN Raise
       ELSE
           /\ pages_got' = Append(pages_got, response.body)
           /\ IF Paginated
                THEN IF Len(response.body) = 0
                       THEN /\ pc' = "cg_open_creation_time"
                            /\ UNCHANGED <<result, current_time>>
                       ELSE /\ result' = result \o response.body
                            /\ current_time' = now
                            /\ pc' = "cg_call"
                ELSE /\ result' = response.body
                     /\ pc' = "cg_open_creation_time"
                     /\ UNCHANGED current_time
           /\ response' = NoResponse
           /\ cache' = [cache EXCEPT ![Dir].content = FullFile(result')]
           /\ UNCHANGED <<now, config, aside, tokfile, torn, client_data, creds, force_refresh, page,
                          mrvars, grant_type, op, outcome, http_calls, oauth_calls, cache0,
                          pages_req, before, last>>

\* Mutant: result = response_json instead of result += response_json.
getter_response_overwriting ==
  /\ pc = "cg_resp"
  /\ IF response.status_code # 200
       \* response.json() raises: there is no document in the body
       THEN Raise
       ELSE
           /\ pages_got' = Append(pages_got, response.body)
           /\ IF Paginated
                THEN IF Len(response.body) = 0
                       THEN /\ pc' = "cg_open_creation_time"
                            /\ UNCHANGED <<result, current_time>>
                       ELSE /\ result' = response.body
                            /\ current_time' = now
                            /\ pc' = "cg_call"
                ELSE /\ result' = response.body
                     /\ pc' = "cg_open_creation_time"
                     /\ UNCHANGED current_time
           /\ response' = NoResponse
           /\ UNCHANGED <<now, config, aside, files, client_data, creds, force_refresh, page,
                          mrvars, grant_type, op, outcome, http_calls, oauth_calls, cache0,
                          pages_req, before, last>>

\* Lines 102-108 and 117-118: the response of getter.
getter_response ==
  /\ pc = "cg_resp"
  /\ IF response.status_code # 200
       \* response.json() raises: there is no document in the body
       THEN Raise
       ELSE
           /\ pages_got' = Append(pages_got, response.body)
           /\ IF Paginated
                THEN IF Len(response.body) = 0
                       THEN /\ pc' = "cg_open_creation_time"
                            /\ UNCHANGED <<result, current_time>>
                       ELSE /\ result' = result \o response.body
                            /\ current_time' = now
                            /\ pc' = "cg_call"
                ELSE /\ result' = response.body
                     /\ pc' = "cg_open_creation_time"
                     /\ UNCHANGED current_time
           /\ response' = NoResponse
           /\ UNCHANGED <<now, config, aside, files, client_data, creds, force_refresh, page,
                          mrvars, grant_type, op, outcome, http_calls, oauth_calls, cache0,
                          pages_req, before, last>>

\* Line 122, write_text: the file is opened (and truncated) ...
open_creation_time ==
  /\ pc = "cg_open_creation_time"
  /\ cache' = [cache EXCEPT ![Dir].creation_time = EmptyFile(0)]
  /\ torn' = TRUE
  /\ pc' = "cg_write_creation_time"
  /\ UNCHANGED <<now, config, aside, tokfile, client_data, creds, cgvars, mrvars,
                 response, grant_type, ghost>>

\* ... and the time is written.
write_creation_time ==
  /\ pc = "cg_write_creation_time"
  /\ cache' = [cache EXCEPT ![Dir].creation_time = FullFile(current_time)]
  /\ pc' = "cg_open_content"
  /\ UNCHANGED <<torn, now, config, aside, tokfile, client_data, creds, cgvars, mrvars,
                 response, grant_type, ghost>>

\* Line 123: open(content_path, 'w').
open_content ==
  /\ pc = "cg_open_content"
  /\ cache' = [cache EXCEPT ![Dir].content = EmptyFile(<< >>)]
  /\ pc' = "cg_dump_content"
  /\ UNCHANGED <<torn, now, config, aside, tokfile, client_data, creds, cgvars, mrvars,
                 response, grant_type, ghost>>

\* Lines 124-125: json.dump, return result.
dump_content ==
  /\ pc = "cg_dump_content"
  /\ cache' = [cache EXCEPT ![Dir].content = FullFile(result)]
  /\ torn' = FALSE
  /\ Return(result)
  /\ UNCHANGED <<now, config, aside, tokfile, client_data, creds>>

\* ------------------------------------------------------------ environment
\* The process dies (kill, power loss): the objects are gone, the tracker
\* with them (line 256 makes a new one), the files stay.
Crash ==
  /\ pc # "down"
  /\ pc' = "down"
  /\ ResetFrames /\ ResetObjects /\ ResetHistory
  /\ last' = NoLast
  /\ rate_limiting' = RateLimitTracking0 /\ target_time' = Epoch
  /\ UNCHANGED <<now, config, utcnow, rl_call, threads, keyvars, files>>

\* The operation has returned or raised and the application goes on.
Continue ==
  /\ pc = "done"
  /\ pc' = "idle"
  /\ last' = IF op.kind = "query" /\ ~op.force
              THEN [ok |-> outcome.st = "ok", calls |-> http_calls]
              ELSE NoLast
  /\ ResetHistory
  /\ UNCHANGED <<now, config, aside, files, client_data, creds, cgvars, mrvars,
                 response, grant_type>>

\* Time passes where the process waits: while it is not running, between two
\* operations, and on the way into a request (sleep_until_unlimited and the
\* network) or through the browser.
Tick ==
  /\ pc \in {"down", "idle", "mr_enter", "oauth"}
  /\ \E t \in Instants :
       /\ t > now
       /\ \A u \in Instants : u > now => t <= u
       /\ now' = t
  /\ last' = NoLast
  /\ UNCHANGED <<pc, config, aside, files, client_data, creds, cgvars, mrvars,
                 response, grant_type, ophist>>

\* ------------------------------------- the methods of api.rate_limiting
\* The application calls the methods of the tracker of its ApiAccess itself;
\* nothing else of the ApiAccess is touched.
RateFrame ==
  /\ pc = "idle"
  /\ UNCHANGED <<pc, now, config, files, client_data, creds, cgvars, mrvars,
                 response, grant_type, ghost, threads, keyvars>>

\* rate_limiting.update(headers)
CallUpdate ==
  /\ RateFrame
  /\ \E headers \in Headers :
       LET r == update(rate_limiting, headers, utcnow) IN
         /\ rate_limiting' = r.self
         /\ rl_call' = [NoCall EXCEPT !.op = "update", !.at = utcnow,
                                      !.st = IF r.raised THEN "err" ELSE "ok",
                                      !.usage = headers.usage.st,
                                      !.limit = headers.limit.st]
  /\ UNCHANGED <<utcnow, target_time>>

\* rate_limiting.is_limited(leave_buffer)
CallIsLimited ==
  /\ RateFrame
  /\ \E leave_buffer \in BOOLEAN :
       rl_call' = IF LimitedRaises(rate_limiting)
                    THEN [NoCall EXCEPT !.op = "is_limited", !.at = utcnow,
                                        !.leave_buffer = leave_buffer,
                                        !.st = "err"]
                    ELSE [NoCall EXCEPT !.op = "is_limited", !.at = utcnow,
                                        !.leave_buffer = leave_buffer,
                                        !.limited = is_limited(rate_limiting, leave_buffer, utcnow)]
  /\ UNCHANGED <<rate_limiting, utcnow, target_time>>

\* rate_limiting.next_unlimited_time(leave_buffer)
CallNextUnlimitedTime ==
  /\ RateFrame
  /\ \E leave_buffer \in BOOLEAN :
       rl_call' = IF LimitedRaises(rate_limiting)
                    THEN [NoCall EXCEPT !.op = "next_unlimited_time", !.at = utcnow,
                                        !.leave_buffer = leave_buffer,
                                        !.st = "err"]
                    ELSE [NoCall EXCEPT !.op = "next_unlimited_time", !.at = utcnow,
                                        !.leave_buffer = leave_buffer,
                                        !.time = next_unlimited_time(rate_limiting, leave_buffer, utcnow)]
  /\ UNCHANGED <<rate_limiting, utcnow, target_time>>

\* Time passes between two calls.
RateTick ==
  /\ pc \in {"idle", "mr_enter", "sl_target", "sl_sleep"}
  /\ UNCHANGED <<pc, now, config, files, client_data, creds, cgvars, mrvars,
                 response, grant_type, ghost, threads, keyvars>>
  /\ \E t \in Moments :
       /\ t > utcnow
       /\ \A u \in Moments : u > utcnow => t <= u
       /\ utcnow' = t
  /\ UNCHANGED <<rate_limiting, rl_call, target_time>>

\* ----------------------------- threads that share the ApiAccess object
\* Each thread runs make_request on the one ApiAccess; the interpreter
\* switches between them at any statement, and while a thread waits for the
\* network.  Nothing in the class takes a lock.
ThreadFrame ==
  /\ pc = "idle"
  /\ UNCHANGED <<pc, config, ratevars, keyvars, cache, torn, cgvars, mrvars,
                 response, grant_type, ghost>>

\* make_request lines 330-334, up to the call of __refresh_credentials.
thread_make_request(t) ==
  /\ ThreadFrame
  /\ threads[t].pc = "idle"
  /\ threads' = [threads EXCEPT ![t].pc = "rc"]
  /\ UNCHANGED <<now, tokfile, client_data, creds>>

\* __refresh_credentials lines 260-279: the test, and the request posted
\* with the refresh token the object holds at that moment.
thread_refresh_credentials(t) ==
  /\ ThreadFrame
  /\ threads[t].pc = "rc"
  /\ IF Expired
       THEN /\ client_data' = refresh_request
            /\ threads' = [threads EXCEPT ![t].pc = "exchange", ![t].sent = refresh_token]
       ELSE /\ threads' = [threads EXCEPT ![t].pc = "mr_http"]
            /\ UNCHANGED client_data
  /\ UNCHANGED <<now, tokfile, creds>>

\* __handle_token_response lines 284-308 for the answer to this thread's
\* request.
thread_handle_token_response(t) ==
  /\ ThreadFrame
  /\ threads[t].pc = "exchange"
  /\ \E e \in ExpiresAt, a \in ServerTokens, r \in ServerTokens :
       /\ expiration_time' = e
       /\ access_token' = a
       /\ refresh_token' = r
       /\ tokfile' = [tokfile EXCEPT ![EPHEMERAL_SECRETS] =
                        FullFile([refresh_token |-> r, access_token |-> a,
                                  expiration_time |-> e])]
  /\ threads' = [threads EXCEPT ![t].pc = "mr_http", ![t].sent = 0]
  /\ UNCHANGED <<now, client_data>>

\* The token endpoint turns the request down: raise_for_status at line 284,
\* and make_request ends with the exception.
thread_token_rejected(t) ==
  /\ ThreadFrame
  /\ threads[t].pc = "exchange"
  /\ threads' = [threads EXCEPT ![t] = ThreadIdle]
  /\ UNCHANGED <<now, tokfile, client_data, creds>>

\* make_request lines 335-373: the call of the API and what follows it.
thread_request(t) ==
  /\ ThreadFrame
  /\ threads[t].pc = "mr_http"
  /\ threads' = [threads EXCEPT ![t] = ThreadIdle]
  /\ UNCHANGED <<now, tokfile, client_data, creds>>

\* Time passes.
ThreadTick ==
  /\ ThreadFrame
  /\ \E t \in Instants :
       /\ t > now
       /\ \A u \in Instants : u > now => t <= u
       /\ now' = t
  /\ UNCHANGED <<tokfile, client_data, creds, threads>>

\* ------------------------------------------- the directories of two calls
\* caching_get lines 59-67 for each of the two calls.
ComputeLocations ==
  /\ queries # NoQueries /\ locations = << >>
  /\ locations' = [i \in 1..2 |-> directory_path(queries[i].url, queries[i].params)]
  /\ UNCHANGED <<pc, now, config, ratevars, threads, queries, files, client_data,
                 creds, cgvars, mrvars, response, grant_type, ghost>>

Next ==
  \/ Start \/ InitDump
  \/ refresh_credentials
  \/ TokenResponseRejected \/ TokenResponseIncomplete
  \/ handle_token_response \/ TokDump
  \/ make_request_call \/ make_request_enter
  \/ sleep_target \/ sleep_until
  \/ http_call \/ http_call_fails
  \/ rate_limiting_update \/ make_request_dispatch
  \/ attempt_oauth
  \/ query \/ getter_call \/ getter_response
  \/ open_creation_time \/ write_creation_time \/ open_content \/ dump_content
  \/ Continue \/ Crash \/ Tick
  \/ CallUpdate \/ CallIsLimited \/ CallNextUnlimitedTime \/ RateTick
  \/ \E t \in Threads :
       \/ thread_make_request(t) \/ thread_refresh_credentials(t)
       \/ thread_handle_token_response(t) \/ thread_token_rejected(t)
       \/ thread_request(t)
  \/ ThreadTick
  \/ ComputeLocations

Spec == Init /\ [][Next]_vars

\* Two calls of caching_get with any of the params dicts, before anything
\* else happens.
InitKey ==
  /\ Init
  /\ queries # NoQueries
  /\ metering = "unmetered" /\ buffers = {TRUE}
  /\ server = "steady"
  /\ secrets_file = EPHEMERAL_SECRETS
  /\ target = [path |-> ATHLETE, params |-> NoParams]
  /\ tokfile[EPHEMERAL_SECRETS] = FullFile([NoSecrets EXCEPT !.refresh_token = 1])

NextKey == ComputeLocations

SpecKey == InitKey /\ [][NextKey]_vars

\* An application that constructs an ApiAccess (with a usable token file and a
\* steady token endpoint) and then works with api.rate_limiting alone.
InitRate ==
  /\ Init
  /\ queries = NoQueries
  /\ metering = "unmetered" /\ buffers = {TRUE}
  /\ server = "steady"
  /\ secrets_file = EPHEMERAL_SECRETS
  /\ target = [path |-> ATHLETE, params |-> NoParams]
  /\ tokfile[EPHEMERAL_SECRETS] = FullFile([NoSecrets EXCEPT !.refresh_token = 1])

NextRate ==
  \/ Start
  \/ refresh_credentials
  \/ handle_token_response \/ TokDump
  \/ CallUpdate \/ CallIsLimited \/ CallNextUnlimitedTime \/ RateTick

SpecRate == InitRate /\ [][NextRate]_vars

\* An application that calls make_request with every combination of
\* attempt_auth, rate_limit_buffer and rate_limit_autobackoff, against an API
\* that meters it, while the clock runs; the token endpoint is a steady one.
InitRequest ==
  /\ Init
  /\ queries = NoQueries
  /\ metering = "metered" /\ buffers = BOOLEAN
  /\ server = "steady"
  /\ secrets_file = EPHEMERAL_SECRETS
  /\ target = [path |-> ATHLETE, params |-> NoParams]
  /\ tokfile[EPHEMERAL_SECRETS] = FullFile([NoSecrets EXCEPT !.refresh_token = 1])

NextRequest ==
  \/ Start
  \/ refresh_credentials
  \/ handle_token_response \/ TokDump
  \/ make_request_call \/ make_request_enter
  \/ sleep_target \/ sleep_until
  \/ http_call \/ http_call_fails
  \/ rate_limiting_update \/ make_request_dispatch
  \/ attempt_oauth
  \/ Continue \/ RateTick

SpecRequest == InitRequest /\ [][NextRequest]_vars

\* An application that constructs one ApiAccess and has several threads call
\* make_request on it, against any token endpoint.
InitThreads ==
  /\ Init
  /\ queries = NoQueries
  /\ metering = "unmetered" /\ buffers = {TRUE}
  /\ server = "any"
  /\ secrets_file = EPHEMERAL_SECRETS
  /\ target = [path |-> ATHLETE, params |-> NoParams]
  /\ tokfile[EPHEMERAL_SECRETS] = FullFile([NoSecrets EXCEPT !.refresh_token = 1])

NextThreads ==
  \/ Start
  \/ refresh_credentials
  \/ handle_token_response \/ TokDump
  \/ \E t \in Threads :
       \/ thread_make_request(t) \/ thread_refresh_credentials(t)
       \/ thread_handle_token_response(t) \/ thread_token_rejected(t)
       \/ thread_request(t)
  \/ ThreadTick

SpecThreads == InitThreads /\ [][NextThreads]_vars

\* The application of get_activities_demo.py: it only calls query(), and the
\* token endpoint is a steady one.
InitCache ==
  /\ Init
  /\ queries = NoQueries
  /\ metering = "unmetered" /\ buffers = {TRUE}
  /\ server = "steady"
  /\ secrets_file = EPHEMERAL_SECRETS

NextCache ==
  \/ Start \/ InitDump
  \/ refresh_credentials
  \/ handle_token_response \/ TokDump
  \/ make_request_enter
  \/ http_call \/ http_call_fails
  \/ rate_limiting_update \/ make_request_dispatch
  \/ attempt_oauth
  \/ query \/ getter_call \/ getter_response
  \/ open_creation_time \/ write_creation_time \/ open_content \/ dump_content
  \/ Continue \/ Crash \/ Tick

SpecCache == InitCache /\ [][NextCache]_vars

\* The application of get_athlete_demo.py line 10: it only calls
\* make_request(), against any token endpoint.
InitAuth ==
  /\ Init
  /\ queries = NoQueries
  /\ metering = "unmetered" /\ buffers = {TRUE}
  /\ server = "any"
  /\ target = [path |-> ATHLETE, params |-> NoParams]

NextAuth ==
  \/ Start \/ InitDump
  \/ refresh_credentials
  \/ TokenResponseRejected \/ TokenResponseIncomplete
  \/ handle_token_response \/ TokDump
  \/ make_request_call \/ make_request_enter
  \/ http_call \/ http_call_fails
  \/ rate_limiting_update \/ make_request_dispatch
  \/ attempt_oauth
  \/ Continue \/ Crash \/ Tick

SpecAuth == InitAuth /\ [][NextAuth]_vars


\* The steps of the process itself; Tick and Crash are the environment's.
ProcessStep ==
  \/ Start \/ InitDump
  \/ refresh_credentials
  \/ TokenResponseRejected \/ TokenResponseIncomplete
  \/ handle_token_response \/ TokDump
  \/ make_request_call \/ make_request_enter
  \/ http_call \/ http_call_fails
  \/ rate_limiting_update \/ make_request_dispatch
  \/ attempt_oauth
  \/ Continue

\* The interpreter keeps running the one thread, every network call and the
\* browser round trip come back: a step of the process that stays possible
\* is taken.
FairSpecAuth == SpecAuth /\ WF_vars(ProcessStep)

\* ================================================================ claims

IsQueryCall == pc = "idle" /\ op'.kind = "query"
Complete(entry) == entry.creation_time.st = "full" /\ entry.content.st = "full"

\* C1: query(path, params, forceRefresh=false) on a key whose cache entry
\* exists and is not stale (created_at + 7 days >= now) returns the stored
\* payload and issues no network call.
C1_FreshHitNoNetwork ==
  [][ ( /\ IsQueryCall
        /\ ~op'.force
        /\ get_data_for_path(target.path) # 0
        /\ Complete(cache[Dir])
        /\ cache[Dir].creation_time.v + CACHE_EXPIRATION_TIME >= now )
      => ( /\ pc' = "done"
           /\ outcome' = Returned(cache[Dir].content.v)
           /\ http_calls' = 0
           /\ pages_req' = << >>
           /\ cache' = cache ) ]_vars

\* A query without force_refresh has returned the payload of an entry that is
\* exactly CACHE_EXPIRATION_TIME old, without a network call.
C1_Witness ==
  /\ pc = "done" /\ op.kind = "query" /\ ~op.force
  /\ Complete(cache0)
  /\ cache0.creation_time.v + CACHE_EXPIRATION_TIME = now
  /\ outcome = Returned(cache0.content.v)
  /\ http_calls = 0

\* C2 as stated: two query() calls with forceRefresh=false in immediate
\* succession with identical path and params issue at most one network call
\* in total (seen when the second call is over as soon as it is made, which
\* is when the total is known).
C2_AtMostOneCallInTotal ==
  (pc = "done" /\ op.kind = "query" /\ ~op.force /\ before.calls >= 0)
    => before.calls + http_calls <= 1

\* C2 as amended: when the first of the two calls has returned normally and
\* the creation time of the entry is not more than 7 days before the second
\* call, the second call returns without any network call (the first call
\* may have made several: one per page, and the retries of make_request).
C2_SecondCallNoNetwork ==
  [][ ( /\ IsQueryCall
        /\ ~op'.force
        /\ last.ok
        /\ ~(cache[Dir].creation_time.v + CACHE_EXPIRATION_TIME < now) )
      => ( /\ pc' = "done"
           /\ outcome'.st = "ok"
           /\ http_calls' = 0 ) ]_vars

\* The second of two queries in immediate succession has returned without a
\* network call after the first one made more than one.
C2_Witness ==
  /\ pc = "done" /\ op.kind = "query" /\ ~op.force
  /\ before.ok /\ before.calls >= 2
  /\ outcome.st = "ok" /\ http_calls = 0

\* C3 as stated: query() goes on to fetch when now - created_at > 7 days and
\* never does when now - created_at < 7 days, whatever its arguments.
C3_NeverRefetchInsideWindow ==
  [][ ( /\ IsQueryCall
        /\ get_data_for_path(target.path) # 0
        /\ Complete(cache[Dir]) )
      => ( /\ (now - cache[Dir].creation_time.v > CACHE_EXPIRATION_TIME
                 => pc' = "cg_call")
           /\ (now - cache[Dir].creation_time.v < CACHE_EXPIRATION_TIME
                 => pc' = "done" /\ http_calls' = 0) ) ]_vars

\* C3 as amended: a cache entry older than the expiration window is always
\* treated as a miss: query() goes on to fetch when now - created_at > 7
\* days, and when force_refresh is false it never does when
\* now - created_at < 7 days.
C3_StaleIsMiss ==
  [][ ( /\ IsQueryCall
        /\ get_data_for_path(target.path) # 0
        /\ Complete(cache[Dir]) )
      => ( /\ (now - cache[Dir].creation_time.v > CACHE_EXPIRATION_TIME
                 => pc' = "cg_call" /\ outcome'.st = "running")
           /\ (now - cache[Dir].creation_time.v < CACHE_EXPIRATION_TIME /\ ~op'.force
                 => pc' = "done" /\ http_calls' = 0 /\ pages_req' = << >>) ) ]_vars

\* A query without force_refresh found a complete entry older than the
\* window, fetched, and has replaced it.
C3_Witness ==
  /\ pc = "done" /\ op.kind = "query" /\ ~op.force
  /\ Complete(cache0)
  /\ now - cache0.creation_time.v > CACHE_EXPIRATION_TIME
  /\ http_calls >= 1
  /\ outcome.st = "ok"
  /\ cache[Dir].creation_time.v > cache0.creation_time.v

\* C4: if any fetch during a query fails (the single fetch, or any page of a
\* paginated fetch) the error reaches the caller and the cache entry at that
\* key is exactly as it was before the query.
C4_FailedFetchLeavesCache ==
  /\ (pc = "done" /\ op.kind = "query" /\ outcome.st = "err" /\ Len(pages_req) >= 1)
       => cache[Dir] = cache0
  \* as long as a requested page has not come back nothing is written, and
  \* the query can only end with the error
  /\ (op.kind = "query" /\ Len(pages_got) < Len(pages_req))
       => /\ cache[Dir] = cache0
          /\ pc \in {"mr_enter", "mr_http", "mr_update", "mr_dispatch", "oauth",
                     "rc", "exchange", "tok_dump", "cg_resp", "done"}
          /\ pc = "done" => outcome.st = "err"

\* A paginated query has failed on its second page, after a non-empty first.
C4_Witness ==
  /\ pc = "done" /\ op.kind = "query" /\ outcome.st = "err"
  /\ Len(pages_req) = 2 /\ Len(pages_got) = 1 /\ pages_got[1] # << >>
  /\ cache[Dir] = cache0

\* C5: on a paginated path with a cache miss, query() requests page = 1, 2,
\* 3, ... in increasing order with per_page = 200 merged into the params,
\* stops after the first empty page, and returns the concatenation of the
\* pages in page order.
C5_Pagination ==
  (op.kind = "query" /\ get_data_for_path(target.path) # 0 /\ Paginated) =>
    /\ \A i \in 1..Len(pages_req) :
         /\ DOMAIN pages_req[i] = (DOMAIN target.params) \cup {"page", "per_page"}
         /\ pages_req[i]["page"] = i
         /\ pages_req[i]["per_page"] = 200
         /\ \A k \in DOMAIN target.params : pages_req[i][k] = target.params[k]
    /\ Len(pages_got) <= Len(pages_req)
    /\ \A i \in 1..Len(pages_got) : i < Len(pages_req) => pages_got[i] # << >>
    /\ (pc = "done" /\ outcome.st = "ok" /\ pages_req # << >>) =>
         /\ Len(pages_got) = Len(pages_req)
         /\ pages_got[Len(pages_got)] = << >>
         /\ outcome.val = Concat(pages_got)

\* Pages of 200, 50 and 0 items have given the 250 items in their order.
C5_Witness ==
  /\ pc = "done" /\ op.kind = "query" /\ outcome.st = "ok"
  /\ Len(pages_req) = 3 /\ Len(pages_got) = 3
  /\ Len(pages_got[1]) = 200 /\ Len(pages_got[2]) = 50 /\ Len(pages_got[3]) = 0
  /\ Len(outcome.val) = 250
  /\ outcome.val = Body(250)


\* C6: when request() receives a 401 with attemptAuth true it runs
\* expandScope and retries once; if the retried call succeeds request()
\* returns its response, if the retried call is a 401 too request() fails
\* instead of running expandScope again.
C6_ReauthorizeOnce ==
  [][ /\ (pc = "mr_dispatch" /\ pc' # "down" /\ op.kind = "request") =>
           /\ (response.status_code = 401 /\ attempt_auth)
                => (pc' = "oauth" /\ oauth_calls' = oauth_calls + 1)
           /\ (oauth_calls >= 1 /\ response.status_code = 200)
                => (pc' = "done" /\ outcome' = Returned(response.body))
           /\ (oauth_calls >= 1 /\ response.status_code = 401)
                => (pc' = "done" /\ outcome'.st = "err" /\ oauth_calls' = oauth_calls)
      /\ (pc = "tok_dump" /\ grant_type = "authorization_code" /\ pc' # "down")
           => (pc' = "mr_enter" /\ outcome'.st = "running") ]_vars

\* A request has returned the response of the call retried after expandScope.
C6_Witness ==
  /\ pc = "done" /\ op.kind = "request" /\ op.attempt_auth
  /\ oauth_calls = 1 /\ http_calls = 2
  /\ outcome.st = "ok"

\* C7: whatever sequence of 401 and 429 responses one originating request()
\* gets, expandScope is invoked at most once.
C7_ExpandScopeAtMostOnce == oauth_calls <= 1

\* After expandScope the retried call got a 429 and is about to be retried.
C7_Witness ==
  /\ pc = "mr_dispatch" /\ op.kind = "request"
  /\ oauth_calls = 1
  /\ response.status_code = RATE_LIMIT_RESPONSE_CODE /\ rate_limit_autobackoff

\* C8: a request() with autoBackoff true makes a bounded number of HTTP
\* attempts when the server answers 429 to every attempt: the call ends.
C8_BackoffTerminates ==
  (op.kind = "request" /\ op.autobackoff /\ outcome.st = "running")
    ~> (outcome.st # "running")

\* C9: cache entry writes are atomic per entry: an entry that a crash left
\* between the first and the last write of a persist is treated as a miss by
\* a later query: never a hit, never a parse error.
C9_TornEntryIsMiss ==
  [][ (IsQueryCall /\ get_data_for_path(target.path) # 0 /\ torn)
        => (pc' = "cg_call" /\ outcome'.st = "running") ]_vars

\* C10: after every successful token exchange the token file from which the
\* credentials are loaded at startup holds exactly the refresh_token,
\* access_token and expiration_time in memory, before the next API call.
C10_TokenFileCurrent ==
  [][ (pc = "tok_dump" /\ pc' # "down")
        => ( /\ pc' \in {"idle", "mr_enter", "mr_http"}
             /\ tokfile'[secrets_file] =
                  FullFile([refresh_token |-> refresh_token',
                            access_token |-> access_token',
                            expiration_time |-> expiration_time']) ) ]_vars

\* C11: __refresh_credentials posts a refresh-token exchange if and only if
\* expiration_time is zero (unset) or earlier than the current time, and
\* whenever it returns normally (to __init__ or to make_request, with or
\* without an exchange) access_token is set.
C11_RefreshIffExpired ==
  [][ /\ (pc = "rc" /\ pc' # "down")
           => /\ (pc' = "exchange" /\ grant_type' = "refresh_token")
                   <=> (expiration_time = 0 \/ expiration_time < now)
              /\ (pc' \in {"idle", "mr_http"}) => access_token' # NoToken
      /\ (pc = "tok_dump" /\ grant_type = "refresh_token" /\ pc' # "down")
           => (pc' \in {"idle", "mr_http"} /\ access_token' # NoToken) ]_vars

\* A request found a token that was set and has expired, and is about to
\* post the refresh-token exchange.
C11_Witness ==
  /\ pc = "exchange" /\ grant_type = "refresh_token" /\ caller = "direct"
  /\ expiration_time # 0 /\ expiration_time < now
  /\ access_token # NoToken

\* C12: after any successful refresh (the token response has been accepted
\* and its fields stored) access_token is set and expiration_time is later
\* than the moment of the refresh.
C12_RefreshedTokenValid ==
  (pc = "tok_dump" /\ grant_type = "refresh_token")
    => (access_token # NoToken /\ expiration_time > now)

\* A snapshot has been recorded: the tracker holds the time of an update, both
\* used counts and both limits.
SnapshotRecorded ==
  /\ rate_limiting.last_rate_limit_update # None
  /\ rate_limiting.short_count # None /\ rate_limiting.daily_count # None
  /\ rate_limiting.short_limit # None /\ rate_limiting.daily_limit # None
\* The step is a call of is_limited / of next_unlimited_time.
IsLimitedStep ==
  rl_call'.op = "is_limited" /\ utcnow' = utcnow /\ rate_limiting' = rate_limiting
NextUnlimitedTimeStep ==
  rl_call'.op = "next_unlimited_time" /\ utcnow' = utcnow /\ rate_limiting' = rate_limiting
\* The used count has reached the limit, or four fifths of it with the buffer.
Reached(used, limit, leave_buffer) ==
  IF leave_buffer THEN 5 * used >= 4 * limit ELSE used >= limit
\* The reset boundaries of the windows the snapshot was taken in: the next
\* multiple of 15 minutes and the next midnight after it.
ShortBoundary ==
  rate_limiting.last_rate_limit_update - (rate_limiting.last_rate_limit_update % 15) + 15
DailyBoundary ==
  rate_limiting.last_rate_limit_update - (rate_limiting.last_rate_limit_update % 1440) + 1440
ShortThrottled(leave_buffer) ==
  /\ Reached(rate_limiting.short_count, rate_limiting.short_limit, leave_buffer)
  /\ utcnow < ShortBoundary
DailyThrottled(leave_buffer) ==
  /\ Reached(rate_limiting.daily_count, rate_limiting.daily_limit, leave_buffer)
  /\ utcnow < DailyBoundary

WasLimited(leave_buffer) ==
  /\ rl_call.op = "is_limited" /\ rl_call.st = "ok" /\ rl_call.limited
  /\ rl_call.leave_buffer = leave_buffer
ShortReached(leave_buffer) ==
  Reached(rate_limiting.short_count, rate_limiting.short_limit, leave_buffer)
DailyReached(leave_buffer) ==
  Reached(rate_limiting.daily_count, rate_limiting.daily_limit, leave_buffer)
\* The snapshot has just been recorded by a call of update that read both
\* headers, and no time has passed.
JustRecorded ==
  /\ rl_call.op = "update" /\ rl_call.st = "ok"
  /\ rl_call.usage = "integers" /\ rl_call.limit = "integers"
  /\ rate_limiting.last_rate_limit_update = utcnow

C15_NextUnlimitedTime ==
  [][ (NextUnlimitedTimeStep /\ (SnapshotRecorded \/ rate_limiting = RateLimitTracking0)) =>
        LET leave_buffer == rl_call'.leave_buffer
            daily == rate_limiting # RateLimitTracking0 /\ DailyThrottled(leave_buffer)
            short == rate_limiting # RateLimitTracking0 /\ ShortThrottled(leave_buffer)
        IN /\ rl_call'.st = "ok"
           /\ daily => rl_call'.time = Aware(DailyBoundary)
           /\ (~daily /\ short) => rl_call'.time = Aware(ShortBoundary)
           /\ (~daily /\ ~short) => rl_call'.time = Epoch ]_vars

\* Both windows are throttled, they end at different times, and the call has
\* returned the end of the day.
C15_Witness ==
  /\ rl_call.op = "next_unlimited_time" /\ rl_call.st = "ok" /\ rl_call.at = utcnow
  /\ SnapshotRecorded
  /\ ShortThrottled(rl_call.leave_buffer) /\ DailyThrottled(rl_call.leave_buffer)
  /\ ShortBoundary < DailyBoundary
  /\ rl_call.time = Aware(DailyBoundary)

\* C16: update called with headers that lack the usage header or the limit
\* header leaves every field of the tracker (the time of the last update,
\* both used counts, both limits) as it was and raises nothing.
C16_MissingHeaderNoChange ==
  [][ ( /\ rl_call'.op = "update" /\ utcnow' = utcnow /\ pc = "idle"
        /\ (rl_call'.usage = "absent" \/ rl_call'.limit = "absent") )
      => (rate_limiting' = rate_limiting /\ rl_call'.st = "ok") ]_vars

\* A snapshot had been recorded earlier; a response with the usage header and
\* without the limit header has been handed to update, and the snapshot is
\* still the earlier one.
C16_Witness ==
  /\ rl_call.op = "update" /\ rl_call.st = "ok" /\ rl_call.at = utcnow
  /\ rl_call.usage = "integers" /\ rl_call.limit = "absent"
  /\ SnapshotRecorded
  /\ rate_limiting.last_rate_limit_update < utcnow

\* C17: when several callers need a token refresh on one shared ApiAccess at
\* the same time, at most one token exchange is in flight at any time, so
\* that the same refresh token is never posted in two exchanges.
C17_SingleFlight ==
  \A t1 \in Threads, t2 \in Threads :
    (t1 # t2 /\ threads[t1].pc = "exchange") => threads[t2].pc # "exchange"

\* C18: a cache entry whose payload file or creation-time file is on disk
\* but cannot be parsed is treated as a miss: the query refetches and no
\* error reaches the caller.
Unparseable(file) == file.st = "empty"

C18_MalformedEntryIsMiss ==
  [][ ( /\ IsQueryCall /\ get_data_for_path(target.path) # 0
        /\ Unparseable(cache[Dir].creation_time) \/ Unparseable(cache[Dir].content) )
        => (outcome'.st # "err" /\ pc' = "cg_call") ]_vars

\* C19: query() with a path that matches no pattern of the API definition
\* fails in the call itself: the cache files are left as they were, nothing
\* is asked of the getter and no HTTP call is made.
NoPatternMatches(query_path) ==
  \A i \in 1..Len(all_paths) : ~path_matches(all_paths[i].path, query_path)

C19_InvalidPathFailsFast ==
  [][ (IsQueryCall /\ NoPatternMatches(target.path))
        => /\ pc' = "done" /\ outcome' = Raised
           /\ cache' = cache /\ tokfile' = tokfile
           /\ http_calls' = 0 /\ oauth_calls' = 0
           /\ pages_req' = << >> /\ pages_got' = << >> ]_vars

\* A query for a path of no pattern has ended.
C19_Witness ==
  /\ pc = "done" /\ op.kind = "query"
  /\ NoPatternMatches(target.path)
  /\ outcome = Raised /\ http_calls = 0

\* C20: make_request ends with an exception, after the one HTTP call and
\* without another attempt, for every response whose status is not 2xx and
\* is not a 401 with attempt_auth set or a 429 with rate_limit_autobackoff
\* set; such a response is never returned.
Handled ==
  \/ response.status_code = 401 /\ attempt_auth
  \/ response.status_code = RATE_LIMIT_RESPONSE_CODE /\ rate_limit_autobackoff

C20_OtherStatusFails ==
  [][ ( /\ pc = "mr_dispatch" /\ op.kind = "request"
        /\ response.status_code \notin 200..299
        /\ ~Handled )
        => (pc' = "done" /\ outcome'.st = "err") ]_vars

C22_ExchangeBodyMinimal ==
  pc = "exchange"
    => /\ client_data["grant_type"] = grant_type
       /\ DOMAIN client_data =
            {CLIENT_ID, CLIENT_SECRET, "grant_type"} \cup
              (IF grant_type = "refresh_token" THEN {REFRESH_TOKEN} ELSE {"code"})

\* The two calls have been given their directories; the two params dicts
\* hold the same items.
Located == locations # << >>
Items(d) == {d[i] : i \in 1..Len(d)}
SameParams == Items(queries[1].params) = Items(queries[2].params)

\* C23: two params dicts with the same key/value pairs, whatever the order
\* in which the pairs were inserted, give the same directory for the same
\* url.
C23_KeyOrderIndependent ==
  (Located /\ queries[1].url = queries[2].url /\ SameParams)
    => locations[1] = locations[2]

\* Two dicts of the same two items, inserted in the two orders.
C23_Witness ==
  /\ Located /\ queries[1].url = queries[2].url /\ SameParams
  /\ Len(queries[1].params) = 2
  /\ queries[1].params # queries[2].params

\* A query with force_refresh=True on a path of the API definition, whose
\* creation-time file, if there is one, can be read.
ForcedCall ==
  /\ IsQueryCall /\ op'.force
  /\ get_data_for_path(target.path) # 0
  /\ cache[Dir].creation_time.st # "empty"
\* The last write of the persist of a query with force_refresh=True.
ForcedPersist == pc = "cg_dump_content" /\ op.force /\ pc' = "done"

\* C24 as stated: query() with force_refresh=True always fetches, even when
\* a fresh entry exists, and leaves an entry that holds the fetched payload
\* and, as its creation time, the time at which it is written.
C24_ForcedStampedNow ==
  [][ /\ ForcedCall => (pc' = "cg_call" /\ outcome'.st = "running")
      /\ ForcedPersist
           => /\ outcome'.st = "ok"
              /\ cache'[Dir] = [creation_time |-> FullFile(now),
                                content |-> FullFile(outcome'.val)] ]_vars

\* C24 as amended: query() with force_refresh=True always fetches, even when
\* a fresh entry exists, and leaves an entry that holds the fetched payload
\* and, as its creation time, the time caching_get read before the fetch (or
\* after the last page that was not empty), which is not later than the time
\* of the write; a query without force_refresh that finds an entry not more
\* than CACHE_EXPIRATION_TIME after its creation time returns the payload
\* of the entry without a network call.
C24_ForcedOverwrites ==
  [][ /\ ForcedCall => (pc' = "cg_call" /\ outcome'.st = "running")
      /\ ForcedPersist
           => /\ outcome'.st = "ok" /\ http_calls >= 1
              /\ current_time <= now
              /\ cache'[Dir] = [creation_time |-> FullFile(current_time),
                                content |-> FullFile(outcome'.val)]
      /\ ( /\ IsQueryCall /\ ~op'.force
           /\ get_data_for_path(target.path) # 0
           /\ Complete(cache[Dir])
           /\ now <= cache[Dir].creation_time.v + CACHE_EXPIRATION_TIME )
           => /\ pc' = "done" /\ http_calls' = 0
              /\ outcome' = Returned(cache[Dir].content.v) ]_vars

\* A query with force_refresh=True found a complete entry inside its window
\* and has replaced its payload by another one.
C24_Witness ==
  /\ pc = "done" /\ op.kind = "query" /\ op.force /\ outcome.st = "ok"
  /\ Complete(cache0)
  /\ now <= cache0.creation_time.v + CACHE_EXPIRATION_TIME
  /\ http_calls >= 1
  /\ cache[Dir].content.v # cache0.content.v
  /\ cache[Dir].content.v = outcome.val

\* C25: inside make_request every HTTP call, the retries after a 401 and
\* after a 429 included, comes after sleep_until_unlimited (when
\* rate_limit_autobackoff is set) and then __refresh_credentials, carries the
\* access token the object holds at that moment, and is followed by
\* rate_limiting.update on the headers of its response before the status is
\* looked at, whatever the status.
C25_CallProtocol ==
  [][ \* the call comes straight after __refresh_credentials
      /\ (pc' = "mr_http" /\ pc # "mr_http")
           => (pc \in {"rc", "tok_dump"} /\ access_token' # NoToken)
      \* which comes straight after the entry or the sleep
      /\ (pc' = "rc" /\ pc # "rc" /\ caller' # "init")
           => /\ pc \in {"mr_enter", "sl_sleep"}
              /\ rate_limit_autobackoff
                   => /\ ~LimitedRaises(rate_limiting)
                      /\ ~is_limited(rate_limiting, rate_limit_buffer, utcnow')
      /\ (pc' \in {"sl_target", "sl_sleep"} /\ pc # pc')
           => (rate_limit_autobackoff /\ pc \in {"mr_enter", "sl_target"})
      \* the call carries the token, and update comes next
      /\ (pc = "mr_http" /\ pc' # pc)
           => \/ pc' = "done" /\ outcome'.st = "err"
              \/ /\ pc' = "mr_update"
                 /\ response'.authorization = access_token
                 /\ response'.authorization # NoToken
      /\ (pc = "mr_update" /\ pc' # pc)
           => /\ rate_limiting' = update(rate_limiting, response.headers, utcnow).self
              /\ \/ pc' = "mr_dispatch" /\ response' = response
                 \/ pc' = "done" /\ outcome'.st = "err"
      /\ (pc' = "mr_dispatch" /\ pc # pc') => pc = "mr_update"
      \* a retry starts at the entry again
      /\ (pc = "mr_dispatch" /\ pc' # "done") => pc' \in {"mr_enter", "oauth"}
      /\ (pc = "oauth") => pc' \in {"exchange", "done"}
      /\ (pc = "tok_dump" /\ grant_type = "authorization_code") => pc' = "mr_enter"
    ]_vars

\* The response to the second call of a make_request has arrived, after a
\* 429 and a sleep for the window of the tracker to end.
C25_Witness ==
  /\ pc = "mr_update" /\ op.kind = "request" /\ rate_limit_autobackoff
  /\ http_calls = 2 /\ oauth_calls = 0
  /\ rate_limiting.last_rate_limit_update # None
  /\ utcnow > rate_limiting.last_rate_limit_update
  /\ ~is_limited(rate_limiting, rate_limit_buffer, utcnow)
  /\ response.authorization = access_token

\* The end of the day of the snapshot is never before the end of its quarter
\* of an hour.
DailyEndsLast(self) ==
  self.last_rate_limit_update # None
    => daily_refresh_time(self).t >= short_refresh_time(self).t

\* C26: when sleep_until_unlimited(leave_buffer) finds the tracker limited,
\* sleeps until next_unlimited_time and returns, and no response was recorded
\* meanwhile, is_limited(leave_buffer) is false on return, also when both
\* windows were limited: the daily window of a snapshot never ends before its
\* short window.
C26_SleptUntilUnlimited ==
  [][ /\ DailyEndsLast(rate_limiting')
      /\ (pc = "sl_sleep" /\ pc' = "rc" /\ rate_limiting' = rate_limiting)
           => /\ ~is_limited(rate_limiting', rate_limit_buffer, utcnow')
              /\ utcnow' >= target_time.t
    ]_vars

\* sleep_until_unlimited has returned after a sleep until the end of the day,
\* on a snapshot that has both windows used up.
C26_Witness ==
  /\ pc = "rc" /\ rate_limit_autobackoff
  /\ target_time.aware
  /\ target_time = daily_refresh_time(rate_limiting)
  /\ rate_limiting.short_count >= rate_limiting.short_limit
  /\ rate_limiting.daily_count >= rate_limiting.daily_limit
  /\ short_refresh_time(rate_limiting).t < target_time.t
  /\ utcnow >= target_time.t

\* C27: when a token exchange fails, on the status of the response or on a
\* malformed body, for either grant type, refresh_token, access_token and
\* expiration_time of the object and the token file are what they were, so
\* that the next __refresh_credentials finds the token expired as before.
C27_FailedExchangeKeepsCredentials ==
  [][ ( /\ pc = "exchange" /\ caller # "init"
        /\ pc' = "done" /\ outcome'.st = "err" )
        => (creds' = creds /\ tokfile' = tokfile) ]_vars

\* C28: two calls that differ in the url or in the items of params are never
\* given the same directory, so that the payload stored for one is never
\* returned for the other.
C28_LocationsDistinct ==
  (Located /\ (queries[1].url # queries[2].url \/ ~SameParams))
    => locations[1] # locations[2]

\* C29: after any sequence of update calls, those that raise on malformed
\* header values included, the tracker is all-or-nothing: the time of the
\* last update, both used counts and both limits are all unset or all set
\* (from one response), so that is_limited always reads a whole snapshot.
C29_SnapshotAllOrNothing ==
  rate_limiting = RateLimitTracking0 \/ SnapshotRecorded

====
